---- MODULE Spec2Model ----
(***************************************************************************)
(* Data Quality Alert System: the check discovery / filtering / execution  *)
(* / aggregation pipeline of manager.py, the Issue and IssueCollection     *)
(* classes of issue.py and the hand-over to the reporter of                *)
(* email_reporter.py.                                                      *)
(*                                                                         *)
(* Strings whose characters matter (check names, file names, the names a   *)
(* user types) are sequences of one-character strings, so that lower() and *)
(* _format_check_name are computed character by character.  Strings whose  *)
(* content is never inspected (messages, details) are plain tokens; the    *)
(* empty string is "".  In the report of email_reporter.py every text is a *)
(* sequence of characters, so that _escape_html is computed.               *)
(***************************************************************************)
EXTENDS Integers, Sequences, FiniteSets, TLC

(***************************************************************************)
(* Bounds of the model.                                                    *)
(***************************************************************************)
MaxChecks == 2
MaxNames == 1
MaxDisabled == 1
MaxIssues == 3
MaxItems == 3

(***************************************************************************)
(* Characters and names.                                                   *)
(***************************************************************************)
UpperChars == {"A", "B"}

lower_char(c) ==
  CASE c = "A" -> "a"
    [] c = "B" -> "b"
    [] OTHER -> c

\* str.lower()
str_lower(s) == [i \in 1..Len(s) |-> lower_char(s[i])]

\* Logical names (class names) a check variant may carry.
ClassNames == { <<"A", "b">>, <<"A", "B">>, <<"B", "a">> }

\* Source identifiers (module names, the stem of a file in checks/).
FileNames == { <<"a", "b">>, <<"b", "_", "a">> }

\* The same with a file whose name differs from another one by case only.
ResolveFileNames == FileNames \cup { <<"a", "B">> }

\* Names a caller or the configuration may supply.
InputNames == { <<"a", "b">>, <<"b", "_", "a">>, <<"z">> }

\* All sequences over S of length at most n.
SeqsUpTo(S, n) == UNION { [1..k -> S] : k \in 0..n }

(***************************************************************************)
(* manager.py: name formatting.                                            *)
(***************************************************************************)
RECURSIVE format_from(_, _)
format_from(s, i) ==
  IF i > Len(s) THEN <<>>
  ELSE (IF i > 1 /\ s[i] \in UpperChars THEN <<" ", s[i]>> ELSE <<s[i]>>)
         \o format_from(s, i + 1)

\* re.sub(r'(?<!^)(?=[A-Z])', ' ', check_name)
format_check_name(check_name) == format_from(check_name, 1)

\* [self._format_check_name(name) for name in names]
format_names(names) == [i \in 1..Len(names) |-> format_check_name(names[i])]

(***************************************************************************)
(* manager.py: discovery.  A directory listing is the sequence of check    *)
(* files in the order glob() yields them; a missing directory and an empty *)
(* one both give the empty listing.  A file is                             *)
(*   name     its module name (file stem)                                  *)
(*   loads    FALSE when exec_module raises                                *)
(*   classes  the BaseCheck subclasses of the module, in dir() order       *)
(*            (none is seen when the module does not load)                 *)
(*   raise_at k > 0 when the constructor of the k-th class raises, else 0  *)
(* A check instance is its check_name and its identity (its position in    *)
(* the discovered list).  file_to_class_map is a dict: a sequence of       *)
(* (file, cls) entries in insertion order with unique keys.                *)
(***************************************************************************)
Files ==
  { f \in [name : ResolveFileNames, loads : BOOLEAN,
           classes : SeqsUpTo(ClassNames, MaxChecks),
           raise_at : 0..MaxChecks] :
      /\ f.raise_at <= Len(f.classes)
      /\ ~f.loads => (f.classes = <<>> /\ f.raise_at = 0) }

\* The files called nm that hold n classes.
files_with(nm, n) == { f \in Files : f.name = nm /\ Len(f.classes) = n }

\* Listings of files with distinct names taken from names, holding at most
\* budget classes in all.
RECURSIVE listings(_, _)
listings(names, budget) ==
  { <<>> } \cup
  UNION { LET fs == files_with(p[1], p[2])
              ds == listings(names \ {p[1]}, budget - p[2])
          IN  { <<f>> \o d : f \in fs, d \in ds } :
          p \in names \X (0..budget) }

\* The listings a checks directory may show, its files named from names.
directories(names) == listings(names, MaxChecks)

\* file_to_class_map[key] = value
dict_set(d, key, value) ==
  IF \E i \in 1..Len(d) : d[i].file = key
  THEN [i \in 1..Len(d) |->
          IF d[i].file = key THEN [file |-> key, cls |-> value] ELSE d[i]]
  ELSE Append(d, [file |-> key, cls |-> value])

\* the loop over dir(module), from the k-th class on
RECURSIVE load_classes(_, _, _)
load_classes(f, k, acc) ==
  IF k > Len(f.classes) THEN acc
  ELSE IF f.raise_at = k THEN acc
  ELSE load_classes(f, k + 1,
         [checks |-> Append(acc.checks,
                            [check_name |-> f.classes[k],
                             id |-> Len(acc.checks) + 1]),
          map |-> dict_set(acc.map, f.name, f.classes[k])])

\* the try block for one file
load_file(f, acc) == IF ~f.loads THEN acc ELSE load_classes(f, 1, acc)

RECURSIVE discover_from(_, _, _)
discover_from(dir, i, acc) ==
  IF i > Len(dir) THEN acc
  ELSE discover_from(dir, i + 1, load_file(dir[i], acc))

discover_checks(dir) == discover_from(dir, 1, [checks |-> <<>>, map |-> <<>>])

(***************************************************************************)
(* manager.py: name resolution.  None is [found |-> FALSE, name |-> <<>>]. *)
(***************************************************************************)
NotFound == [found |-> FALSE, name |-> <<>>]
Found(n) == [found |-> TRUE, name |-> n]

\* match_class with the check's own name not lowered
RECURSIVE match_class_exact(_, _, _)
match_class_exact(lowered, all_checks, i) ==
  IF i > Len(all_checks) THEN NotFound
  ELSE IF all_checks[i].check_name = lowered
       THEN Found(all_checks[i].check_name)
       ELSE match_class_exact(lowered, all_checks, i + 1)

\* for check in all_checks: if check.check_name.lower() == check_name_lower
RECURSIVE match_class(_, _, _)
match_class(lowered, all_checks, i) ==
  IF i > Len(all_checks) THEN NotFound
  ELSE IF str_lower(all_checks[i].check_name) = lowered
       THEN Found(all_checks[i].check_name)
       ELSE match_class(lowered, all_checks, i + 1)

\* for file_name, class_name in file_to_class_map.items()
RECURSIVE match_file(_, _, _)
match_file(lowered, file_to_class_map, i) ==
  IF i > Len(file_to_class_map) THEN NotFound
  ELSE IF str_lower(file_to_class_map[i].file) = lowered
       THEN Found(file_to_class_map[i].cls)
       ELSE match_file(lowered, file_to_class_map, i + 1)

resolve_check_name(check_name, all_checks, file_to_class_map) ==
  LET by_class == match_class(str_lower(check_name), all_checks, 1)
  IN  IF by_class.found THEN by_class
      ELSE match_file(str_lower(check_name), file_to_class_map, 1)

\* get_disabled_check_names with the configured names taken as they are,
\* not resolved
get_disabled_unresolved(disabled_config, all_checks, file_to_class_map) ==
  { n \in disabled_config :
      \E i \in 1..Len(all_checks) : all_checks[i].check_name = n }

\* disabled_config is the collection CheckConfig.get_disabled_checks() returns
get_disabled_check_names(disabled_config, all_checks, file_to_class_map) ==
  { resolve_check_name(n, all_checks, file_to_class_map).name :
      n \in { m \in disabled_config :
                resolve_check_name(m, all_checks, file_to_class_map).found } }

(***************************************************************************)
(* manager.py: filtering.  An optional list argument is                    *)
(* [given |-> FALSE, list |-> <<>>] for None and [given |-> TRUE, list |-> *)
(* l] for the list l.  The info string is kept as its parts:               *)
(*   head      the leading phrase                                          *)
(*   names     the names joined after the head                             *)
(*   note      the phrase of the parenthesis or of the "disabled:" part    *)
(*   skipped   the names of requested_disabled joined in the parenthesis   *)
(*   disabled  the names of disabled_class_names joined after the note (a  *)
(*             Python set, listed in no particular order)                  *)
(***************************************************************************)
None == [given |-> FALSE, list |-> <<>>]
Some(l) == [given |-> TRUE, list |-> l]

\* Python truth value of an optional list
truthy(arg) == arg.given /\ arg.list # <<>>

NoInfo == [head |-> "None", names |-> <<>>, note |-> "", skipped |-> <<>>,
           disabled |-> {}]

\* [resolve(name) for name in names]
resolve_all(names, all_checks, file_to_class_map) ==
  [i \in 1..Len(names) |->
     resolve_check_name(names[i], all_checks, file_to_class_map)]

\* the names of a sequence of resolutions
names_of(rs) == [i \in 1..Len(rs) |-> rs[i].name]

\* check.check_name in names, for a list of names
in_list(n, names) == \E i \in 1..Len(names) : names[i] = n

\* requested_disabled_of with the disabled names not recorded
requested_disabled_forgotten(rs, disabled_class_names) == <<>>

\* requested_disabled_of that records the names that resolve to nothing
requested_disabled_not_found(rs, disabled_class_names) ==
  names_of(SelectSeq(rs, LAMBDA r : ~r.found))

\* the requested_disabled list the loop over include_names builds
requested_disabled_of(rs, disabled_class_names) ==
  names_of(SelectSeq(rs, LAMBDA r : r.found /\ r.name \in disabled_class_names))

\* resolved_names_of that keeps the first resolved name only
resolved_names_first(rs, disabled_class_names) ==
  LET hits == SelectSeq(rs, LAMBDA r : r.found /\ r.name \notin disabled_class_names)
  IN  IF hits = <<>> THEN <<>> ELSE << hits[1].name >>

\* the resolved_names list the loop over include_names builds
resolved_names_of(rs, disabled_class_names) ==
  names_of(SelectSeq(rs, LAMBDA r : r.found /\ r.name \notin disabled_class_names))

include_mode(all_checks, file_to_class_map, include_names, disabled_class_names) ==
  LET rs == resolve_all(include_names, all_checks, file_to_class_map)
      requested_disabled == requested_disabled_of(rs, disabled_class_names)
      resolved_names == resolved_names_of(rs, disabled_class_names)
      filtered == SelectSeq(all_checks, LAMBDA c : in_list(c.check_name, resolved_names))
  IN  IF filtered = <<>>
      THEN [raised |-> FALSE, filtered |-> <<>>,
            info |-> [head |-> "No valid checks found from",
                      names |-> include_names,
                      note |-> IF requested_disabled # <<>>
                               THEN "requested checks are disabled" ELSE "",
                      skipped |-> <<>>, disabled |-> {}]]
      ELSE [raised |-> FALSE, filtered |-> filtered,
            info |-> [head |-> "Selected checks executed",
                      names |-> format_names(resolved_names),
                      note |-> IF requested_disabled # <<>>
                               THEN "disabled checks skipped" ELSE "",
                      skipped |-> format_names(requested_disabled),
                      disabled |-> {}]]

\* exclude_mode that leaves the exclude names aside
exclude_mode_names_ignored(all_checks, file_to_class_map, exclude_names, disabled_class_names) ==
  [raised |-> FALSE,
   filtered |-> SelectSeq(all_checks, LAMBDA c : c.check_name \notin disabled_class_names),
   info |-> [head |-> "All checks executed", names |-> <<>>, note |-> "",
             skipped |-> <<>>,
             disabled |-> { format_check_name(n) : n \in disabled_class_names }]]

\* the elif branch of filter_checks: exclude mode
exclude_mode(all_checks, file_to_class_map, exclude_names, disabled_class_names) ==
  LET rs == resolve_all(exclude_names, all_checks, file_to_class_map)
      excluded_names == names_of(SelectSeq(rs, LAMBDA r : r.found))
      filtered ==
        SelectSeq(all_checks,
                  LAMBDA c : ~in_list(c.check_name, excluded_names)
                             /\ c.check_name \notin disabled_class_names)
  IN  [raised |-> FALSE, filtered |-> filtered,
       info |-> IF excluded_names # <<>> \/ disabled_class_names # {}
                THEN [head |-> "All checks executed except",
                      names |-> format_names(excluded_names),
                      note |-> IF disabled_class_names # {} THEN "disabled" ELSE "",
                      skipped |-> <<>>,
                      disabled |-> { format_check_name(n) : n \in disabled_class_names }]
                ELSE [head |-> "All checks executed", names |-> <<>>, note |-> "",
                      skipped |-> <<>>, disabled |-> {}]]

default_mode(all_checks, disabled_class_names) ==
  [raised |-> FALSE,
   filtered |-> SelectSeq(all_checks, LAMBDA c : c.check_name \notin disabled_class_names),
   info |-> [head |-> "All checks executed", names |-> <<>>,
             note |-> IF disabled_class_names # {}
                      THEN "disabled checks skipped" ELSE "",
             skipped |-> <<>>,
             disabled |-> { format_check_name(n) : n \in disabled_class_names }]]

\* both_given with the guard left out
both_given_unchecked(include_names, exclude_names) == FALSE

\* if include_names and exclude_names
both_given(include_names, exclude_names) ==
  truthy(include_names) /\ truthy(exclude_names)

\* raised is TRUE when filter_checks raises ValueError
filter_checks(all_checks, file_to_class_map, include_names, exclude_names, disabled_config) ==
  IF both_given(include_names, exclude_names)
  THEN [raised |-> TRUE, filtered |-> <<>>, info |-> NoInfo]
  ELSE LET disabled_class_names ==
             get_disabled_check_names(disabled_config, all_checks, file_to_class_map)
       IN  IF truthy(include_names)
           THEN include_mode(all_checks, file_to_class_map, include_names.list,
                             disabled_class_names)
           ELSE IF truthy(exclude_names)
           THEN exclude_mode(all_checks, file_to_class_map, exclude_names.list,
                             disabled_class_names)
           ELSE default_mode(all_checks, disabled_class_names)

(***************************************************************************)
(* issue.py.  An Issue is a record of its five fields; details None is     *)
(* stored as "" and an absent extra_data as "" (Issue.__init__).           *)
(***************************************************************************)
VALID_SEVERITIES == {"low", "medium", "high"}

\* Issue.validate without the membership test of the severity
validate_any_severity(check_name, severity, message) ==
  IF check_name = <<>> THEN "check_name is required"
  ELSE IF severity = "" THEN "severity is required"
  ELSE IF message = "" THEN "message is required"
  ELSE "ok"

\* Issue.validate: the error it raises, or "ok"
validate(check_name, severity, message) ==
  IF check_name = <<>> THEN "check_name is required"
  ELSE IF severity = "" THEN "severity is required"
  ELSE IF severity \notin VALID_SEVERITIES THEN "severity must be one of"
  ELSE IF message = "" THEN "message is required"
  ELSE "ok"

\* Issue.__init__ (when validate passes)
Issue(check_name, severity, message, details, extra_data) ==
  [check_name |-> check_name, severity |-> severity, message |-> message,
   details |-> details, extra_data |-> extra_data]

\* add_issue with an Issue that is not validated
add_issue_unvalidated(issues, check_name, severity, message, details, extra_data) ==
  [raised |-> FALSE,
   issues |-> Append(issues,
                     Issue(check_name, severity, message, details, extra_data))]

\* IssueCollection.add_issue on the issue list; raised when Issue() raises
add_issue(issues, check_name, severity, message, details, extra_data) ==
  IF validate(check_name, severity, message) # "ok"
  THEN [raised |-> TRUE, issues |-> issues]
  ELSE [raised |-> FALSE,
        issues |-> Append(issues,
                          Issue(check_name, severity, message, details, extra_data))]

\* list_extend that puts the items of other in front
list_extend_front(items, other) == other \o items

\* list.extend: append the items of other one by one
RECURSIVE list_extend(_, _)
list_extend(items, other) ==
  IF other = <<>> THEN items
  ELSE list_extend(Append(items, Head(other)), Tail(other))

\* extend that replaces the list instead of extending it
extend_replacing(issues, other) == other

\* IssueCollection.extend on the issue lists
extend(issues, other) == list_extend(issues, other)

\* IssueCollection.is_empty
is_empty(issues) == Len(issues) = 0

\* group_add that starts the list of an existing key afresh
group_add_overwriting(grouped, issue) ==
  IF \E i \in 1..Len(grouped) : grouped[i].key = issue.check_name
  THEN [i \in 1..Len(grouped) |->
          IF grouped[i].key = issue.check_name
          THEN [key |-> grouped[i].key, items |-> <<issue>>]
          ELSE grouped[i]]
  ELSE Append(grouped, [key |-> issue.check_name, items |-> <<issue>>])

\* grouped[issue.check_name].append(issue), creating the key when missing;
\* the dict is a sequence of (key, items) entries in insertion order
group_add(grouped, issue) ==
  IF \E i \in 1..Len(grouped) : grouped[i].key = issue.check_name
  THEN [i \in 1..Len(grouped) |->
          IF grouped[i].key = issue.check_name
          THEN [key |-> grouped[i].key, items |-> Append(grouped[i].items, issue)]
          ELSE grouped[i]]
  ELSE Append(grouped, [key |-> issue.check_name, items |-> <<issue>>])

\* group_from that walks the list from its end
RECURSIVE group_from_backwards(_, _, _)
group_from_backwards(issues, i, grouped) ==
  IF i > Len(issues) THEN grouped
  ELSE group_from_backwards(issues, i + 1,
                            group_add(grouped, issues[Len(issues) + 1 - i]))

\* the loop of group_by_check, from the i-th issue on
RECURSIVE group_from(_, _, _)
group_from(issues, i, grouped) ==
  IF i > Len(issues) THEN grouped
  ELSE group_from(issues, i + 1, group_add(grouped, issues[i]))

\* IssueCollection.group_by_check
group_by_check(issues) == group_from(issues, 1, <<>>)

\* Issue(...) as a call: [raised, error, issue]; no issue exists when it raises
construct(check_name, severity, message, details, extra_data) ==
  LET v == validate(check_name, severity, message)
  IN  IF v # "ok"
      THEN [raised |-> TRUE, error |-> v, issue |-> <<>>]
      ELSE [raised |-> FALSE, error |-> "",
            issue |-> << Issue(check_name, severity, message, details, extra_data) >>]

(***************************************************************************)
(* email_reporter.py: the HTML report.  A text is a sequence of            *)
(* characters.  The report is kept as the sequence of the pieces that are  *)
(* embedded in the markup, in document order; the fixed markup (style      *)
(* sheet, tags, date, issue count) is left out.  A piece is                *)
(*   kind   where it is embedded: "execution-info", "h2", "severity",      *)
(*          "message", "details", "title", "li", "th", "td", "key",        *)
(*          "value", "notice"                                              *)
(*   raw    the text the formatter was given for that place                *)
(*   text   the text it wrote into the markup                              *)
(*   shown, total   the two numbers of a truncation notice                 *)
(* extra_data is a dict with the keys entity_ids, invalid_values, records  *)
(* and summary; a missing key and an empty value are rendered alike, so    *)
(* the dict is a record of the four values.  A record of a table and a     *)
(* summary are dicts: sequences of (key, value) entries in insertion       *)
(* order.  Items, keys and values are texts already (str(x) of a str).     *)
(***************************************************************************)
MAX_LIST_ITEMS == 10
MAX_TABLE_ROWS == 10

Piece(kind, raw, text) ==
  [kind |-> kind, raw |-> raw, text |-> text, shown |-> 0, total |-> 0]

Notice(shown, total) ==
  [kind |-> "notice", raw |-> <<>>, text |-> <<>>, shown |-> shown, total |-> total]

\* text.replace(old, new) for a one-character old
RECURSIVE str_replace(_, _, _)
str_replace(text, old, new) ==
  IF text = <<>> THEN <<>>
  ELSE (IF Head(text) = old THEN new ELSE << Head(text) >>)
         \o str_replace(Tail(text), old, new)

\* EmailReporter._escape_html: the five replacements, in the code's order
escape_html(text) ==
  LET amp == str_replace(text, "&", << "&", "a", "m", "p", ";" >>)
      lt == str_replace(amp, "<", << "&", "l", "t", ";" >>)
      gt == str_replace(lt, ">", << "&", "g", "t", ";" >>)
      quot == str_replace(gt, "\"", << "&", "q", "u", "o", "t", ";" >>)
  IN  str_replace(quot, "'", << "&", "#", "x", "2", "7", ";" >>)

\* items[:n] that does not cut
take_all(items, n) == items

\* items[:n] for n >= 0
take(items, n) == SubSeq(items, 1, IF n < Len(items) THEN n ELSE Len(items))

\* the pieces of a sequence of sequences of pieces, one after the other
RECURSIVE join_pieces(_)
join_pieces(parts) ==
  IF parts = <<>> THEN <<>> ELSE Head(parts) \o join_pieces(Tail(parts))

\* EmailReporter._format_list
format_list(items, title, max_items) ==
  LET total_count == Len(items)
      display_items == take(items, max_items)
  IN  << Piece("title", << title >>, << title >>) >>
      \o [i \in 1..Len(display_items) |->
            Piece("li", display_items[i], escape_html(display_items[i]))]
      \o (IF total_count > max_items
          THEN << Notice(max_items, total_count) >> ELSE <<>>)

\* list(record.keys())
dict_keys(d) == [i \in 1..Len(d) |-> d[i].key]

\* record.get(key, '')
dict_get(d, key) ==
  IF \E i \in 1..Len(d) : d[i].key = key
  THEN d[CHOOSE i \in 1..Len(d) : d[i].key = key].value
  ELSE <<>>

\* the cells of one row of the table
table_row(record, headers) ==
  [j \in 1..Len(headers) |->
     Piece("td", dict_get(record, headers[j]),
           escape_html(dict_get(record, headers[j])))]

\* EmailReporter._format_table
format_table(records, max_rows) ==
  IF records = <<>> THEN <<>>
  ELSE LET headers == dict_keys(records[1])
           total_count == Len(records)
           display_records == take(records, max_rows)
       IN  << Piece("title", << "Detailed Records" >>, << "Detailed Records" >>) >>
           \o [j \in 1..Len(headers) |->
                 Piece("th", headers[j], escape_html(headers[j]))]
           \o join_pieces([i \in 1..Len(display_records) |->
                             table_row(display_records[i], headers)])
           \o (IF total_count > max_rows
               THEN << Notice(max_rows, total_count) >> ELSE <<>>)

\* EmailReporter._format_summary
format_summary(summary) ==
  << Piece("title", << "Summary" >>, << "Summary" >>) >>
  \o join_pieces([i \in 1..Len(summary) |->
                    << Piece("key", summary[i].key, escape_html(summary[i].key)),
                       Piece("value", summary[i].value,
                             escape_html(summary[i].value)) >>])

NoExtra == [entity_ids |-> <<>>, invalid_values |-> <<>>, records |-> <<>>,
            summary |-> <<>>]

\* Issue.has_extra_data
has_extra_data(extra_data) == extra_data # NoExtra

\* EmailReporter._format_extra_data
format_extra_data(extra_data) ==
  (IF extra_data.entity_ids # <<>>
   THEN format_list(extra_data.entity_ids, "Entity IDs", MAX_LIST_ITEMS) ELSE <<>>)
  \o (IF extra_data.invalid_values # <<>>
      THEN format_list(extra_data.invalid_values, "Invalid Values", MAX_LIST_ITEMS)
      ELSE <<>>)
  \o (IF extra_data.records # <<>>
      THEN format_table(extra_data.records, MAX_TABLE_ROWS) ELSE <<>>)
  \o (IF extra_data.summary # <<>> THEN format_summary(extra_data.summary) ELSE <<>>)

\* issue.severity.upper()
severity_upper(severity) ==
  CASE severity = "low" -> "LOW"
    [] severity = "medium" -> "MEDIUM"
    [] severity = "high" -> "HIGH"
    [] OTHER -> severity

\* the body of the loop over check_issues, for one issue
format_issue(issue) ==
  << Piece("severity", << issue.severity >>, << severity_upper(issue.severity) >>),
     Piece("message", issue.message, issue.message) >>
  \o (IF issue.details # <<>>
      THEN << Piece("details", issue.details, issue.details) >> ELSE <<>>)
  \o (IF has_extra_data(issue.extra_data)
      THEN format_extra_data(issue.extra_data) ELSE <<>>)

\* the body of the loop over issues_by_check.items(), for one group
format_group(group) ==
  << Piece("h2", format_check_name(group.key), format_check_name(group.key)) >>
  \o join_pieces([i \in 1..Len(group.items) |-> format_issue(group.items[i])])

\* EmailReporter.format_issues; execution_info None and "" are both <<>>
format_issues(issues, info) ==
  IF is_empty(issues) THEN <<>>
  ELSE LET issues_by_check == group_by_check(issues)
       IN  (IF info # <<>>
            THEN << Piece("execution-info", info, info) >> ELSE <<>>)
           \o join_pieces([g \in 1..Len(issues_by_check) |->
                             format_group(issues_by_check[g])])

(***************************************************************************)
(* The pipeline of main(): CheckManager(), run_checks(), send_report().    *)
(***************************************************************************)
VARIABLES
  pc,                \* position in main: see Phases
  all_checks,        \* run_checks: the discovered instances
  file_to_class_map, \* run_checks: source identifier -> logical name
  include_names,     \* argument of run_checks
  exclude_names,     \* argument of run_checks
  disabled_config,   \* what CheckConfig.get_disabled_checks() returns
  checks,            \* run_checks: the filtered selection
  idx,               \* run_checks: position of the for loop in checks
  issues,            \* self.issues, the aggregate collection
  execution_info,    \* self.execution_info
  run_log,           \* the calls of check.run() made so far, with their outcome
  email_calls,       \* the calls of reporter.send_email made so far
  posts,             \* number of requests.post calls made so far
  success,           \* what send_email returned: "none", "true" or "false"
  error,             \* the exception that left main, "" when none
  colls,             \* issue.py: the issue list of each IssueCollection
  last_call,         \* issue.py: the last call made on a collection
  resolve_name,      \* _resolve_check_name: its check_name argument
  resolved,          \* _resolve_check_name: what it returned
  listing,           \* discover_checks: the files glob() yields
  fmt_issues,        \* format_issues: the issue list of its issues argument
  fmt_info,          \* format_issues: its execution_info argument
  html_body,         \* format_issues: what it returned
  list_items,        \* _format_list: its items argument
  list_max,          \* _format_list: its max_items argument
  list_html,         \* _format_list: what it returned
  ctor_args,         \* Issue(): its arguments
  constructed,       \* Issue(): the issue it made, or the error it raised
  run_pc,            \* a concrete check's run(): its position
  run_check,         \* a concrete check's run(): self.check_name
  connection,        \* a concrete check's run(): the state of its connection
  run_issues,        \* a concrete check's run(): its issues collection
  run_failed         \* a concrete check's run(): what raised in the try block

pipeline_vars == << pc, all_checks, file_to_class_map, include_names,
                    exclude_names, disabled_config, checks, idx, issues,
                    execution_info, run_log, email_calls, posts, success, error >>

\* pc values: "idle" before run_checks, "discovered" after discover_checks
\* found checks, "filtered" while the for loop runs, "executed" when
\* run_checks has returned, "reported" when send_report has returned,
\* "crashed" when an exception has left main.

\* What one call of check.run() does: it raises, or returns a collection.
RunResults(n) ==
  { <<>>,
    << Issue(n, "low", "m1", "", "x1"), Issue(n, "medium", "m2", "d2", "") >> }

RunOutcomes(check) ==
  { [raised |-> TRUE, result |-> <<>>, exc |-> "boom"] }
    \cup { [raised |-> FALSE, result |-> r, exc |-> ""] :
             r \in RunResults(check.check_name) }

ListArgs == { None } \cup { Some(l) : l \in SeqsUpTo(InputNames, MaxNames) }

DisabledConfigs == { d \in SUBSET InputNames : Cardinality(d) <= MaxDisabled }

issue_vars == << colls, last_call >>

resolve_vars == << resolve_name, resolved >>

discover_vars == << listing >>

format_vars == << fmt_issues, fmt_info, html_body, list_items, list_max, list_html >>

ctor_vars == << ctor_args, constructed >>

run_vars == << run_pc, run_check, connection, run_issues, run_failed >>

unit_vars == << discover_vars, format_vars, ctor_vars, run_vars >>

PipelineInit ==
  /\ pc = "idle"
  /\ all_checks = <<>>
  /\ file_to_class_map = <<>>
  /\ include_names = None
  /\ exclude_names = None
  /\ disabled_config = {}
  /\ checks = <<>>
  /\ idx = 1
  /\ issues = <<>>
  /\ execution_info = NoInfo
  /\ run_log = <<>>
  /\ email_calls = <<>>
  /\ posts = 0
  /\ success = "none"
  /\ error = ""

\* run_checks, lines 251-255: discover_checks() and the early return
Discover ==
  /\ pc = "idle"
  /\ \E dir \in directories(FileNames) :
       LET d == discover_checks(dir)
       IN  /\ all_checks' = d.checks
           /\ file_to_class_map' = d.map
           /\ pc' = IF d.checks = <<>> THEN "executed" ELSE "discovered"
  /\ UNCHANGED << include_names, exclude_names, disabled_config, checks, idx,
                  issues, execution_info, run_log, email_calls, posts,
                  success, error >>
  /\ UNCHANGED << issue_vars, resolve_vars, unit_vars >>

\* run_checks, lines 258-266: filter_checks() and the early return
Filter ==
  /\ pc = "discovered"
  /\ \E inc \in ListArgs, exc \in ListArgs, dis \in DisabledConfigs :
       LET f == filter_checks(all_checks, file_to_class_map, inc, exc, dis)
       IN  /\ include_names' = inc
           /\ exclude_names' = exc
           /\ disabled_config' = dis
           /\ IF f.raised
              THEN /\ pc' = "crashed"
                   /\ error' = "ValueError"
                   /\ UNCHANGED << checks, execution_info >>
              ELSE /\ checks' = f.filtered
                   /\ execution_info' = f.info
                   /\ pc' = IF f.filtered = <<>> THEN "executed" ELSE "filtered"
                   /\ error' = error
  /\ UNCHANGED << all_checks, file_to_class_map, idx, issues, run_log,
                  email_calls, posts, success >>
  /\ UNCHANGED << issue_vars, resolve_vars, unit_vars >>

\* loop_done one check too early
loop_done_early(i, selected) == i >= Len(selected)

\* the for loop of run_checks has no check left
loop_done(i, selected) == i > Len(selected)

\* on_error with the failure swallowed: no issue is recorded
on_error_swallowed(collection, check, exc) ==
  [raised |-> FALSE, issues |-> collection]

\* the except branch of the loop: one issue naming the failing check
on_error(collection, check, exc) ==
  add_issue(collection, check.check_name, "high", "Error executing check", exc, "")

\* run_checks, lines 268-288: one iteration of the for loop
RunCheck ==
  /\ pc = "filtered"
  /\ ~loop_done(idx, checks)
  /\ \E o \in RunOutcomes(checks[idx]) :
       LET check == checks[idx]
           added == on_error(issues, check, o.exc)
       IN  /\ run_log' = Append(run_log, [id |-> check.id,
                                          check_name |-> check.check_name,
                                          raised |-> o.raised,
                                          result |-> o.result])
           /\ IF ~o.raised
              THEN /\ issues' = extend(issues, o.result)
                   /\ idx' = idx + 1
                   /\ pc' = IF loop_done(idx + 1, checks) THEN "executed" ELSE "filtered"
                   /\ error' = error
              ELSE IF ~added.raised
              THEN /\ issues' = added.issues
                   /\ idx' = idx + 1
                   /\ pc' = IF loop_done(idx + 1, checks) THEN "executed" ELSE "filtered"
                   /\ error' = error
              ELSE /\ pc' = "crashed"
                   /\ error' = "ValueError"
                   /\ UNCHANGED << issues, idx >>
  /\ UNCHANGED << all_checks, file_to_class_map, include_names, exclude_names,
                  disabled_config, checks, execution_info, email_calls, posts,
                  success >>
  /\ UNCHANGED << issue_vars, resolve_vars, unit_vars >>

\* What the outside world does to one delivery: EmailReporter() raises or
\* not, the token is acquired or not, the POST succeeds or not.
Deliveries == [ctor_ok : BOOLEAN, token_ok : BOOLEAN, post_ok : BOOLEAN]

\* EmailReporter.send_email: [result, posted]
send_email(collection, world) ==
  IF is_empty(collection) THEN [result |-> "false", posted |-> 0]
  ELSE IF ~world.token_ok THEN [result |-> "false", posted |-> 0]
  ELSE IF ~world.post_ok THEN [result |-> "false", posted |-> 1]
  ELSE [result |-> "true", posted |-> 1]

\* send_report skips the reporter
nothing_to_send(collection) == is_empty(collection)

\* send_report, lines 290-303
SendReport ==
  /\ pc = "executed"
  /\ \E world \in Deliveries :
       IF nothing_to_send(issues)
       THEN /\ pc' = "reported"
            /\ UNCHANGED << email_calls, posts, success, error >>
       ELSE IF ~world.ctor_ok
       THEN /\ pc' = "crashed"
            /\ error' = "EmailReporter"
            /\ UNCHANGED << email_calls, posts, success >>
       ELSE LET sent == send_email(issues, world)
            IN  /\ email_calls' = Append(email_calls,
                                         [issues |-> issues,
                                          execution_info |-> execution_info])
                /\ posts' = posts + sent.posted
                /\ success' = sent.result
                /\ pc' = "reported"
                /\ error' = error
  /\ UNCHANGED << all_checks, file_to_class_map, include_names, exclude_names,
                  disabled_config, checks, idx, issues, execution_info, run_log >>
  /\ UNCHANGED << issue_vars, resolve_vars, unit_vars >>

(***************************************************************************)
(* issue.py as a state machine: two IssueCollections, A and B, on which    *)
(* add_issue and extend are called with any arguments.  last_call keeps    *)
(* the call and the issue lists as they were when it was made.             *)
(***************************************************************************)
CollIds == {"A", "B"}

IssueCheckNames == { <<>>, <<"A">>, <<"B">> }
IssueSeverities == { "", "low", "critical" }
IssueMessages == { "", "m1" }

NoCall == [op |-> "none", target |-> "A", other |-> "A", raised |-> FALSE,
           before |-> <<>>, arg |-> <<>>]

IssueIdle ==
  /\ colls = [c \in CollIds |-> <<>>]
  /\ last_call = NoCall

\* c.add_issue(check_name, severity, message)
AddIssue ==
  /\ \E c \in CollIds, n \in IssueCheckNames, sev \in IssueSeverities,
        m \in IssueMessages :
       LET r == add_issue(colls[c], n, sev, m, "", "")
       IN  /\ Len(colls[c]) < MaxIssues
           /\ colls' = [colls EXCEPT ![c] = r.issues]
           /\ last_call' = [op |-> "add_issue", target |-> c, other |-> c,
                            raised |-> r.raised, before |-> colls[c],
                            arg |-> <<>>]
  /\ UNCHANGED << pipeline_vars, resolve_vars, unit_vars >>

\* a.extend(b); a and b may be the same collection
Extend ==
  /\ \E a \in CollIds, b \in CollIds :
       /\ Len(colls[a]) + Len(colls[b]) <= MaxIssues
       /\ colls' = [colls EXCEPT ![a] = extend(colls[a], colls[b])]
       /\ last_call' = [op |-> "extend", target |-> a, other |-> b,
                        raised |-> FALSE, before |-> colls[a],
                        arg |-> colls[b]]
  /\ UNCHANGED << pipeline_vars, resolve_vars, unit_vars >>

(***************************************************************************)
(* _resolve_check_name as a function of its arguments: all_checks and      *)
(* file_to_class_map are any result of discover_checks.                    *)
(***************************************************************************)
ResolveNames == InputNames \cup { <<"B", "A">>, <<"A", "b">> }

Unresolved == [called |-> FALSE, found |-> FALSE, name |-> <<>>]

ResolveIdle ==
  /\ resolve_name = <<>>
  /\ resolved = Unresolved

ResolveInit ==
  /\ colls = [c \in CollIds |-> <<>>]
  /\ last_call = NoCall
  /\ listing = <<>>
  /\ fmt_issues = <<>>
  /\ fmt_info = <<>>
  /\ html_body = [called |-> FALSE, pieces |-> <<>>]
  /\ list_items = <<>>
  /\ list_max = 0
  /\ list_html = [called |-> FALSE, pieces |-> <<>>]
  /\ ctor_args = [check_name |-> <<>>, severity |-> "", message |-> "", details |-> ""]
  /\ constructed = [called |-> FALSE, raised |-> FALSE, error |-> "", issue |-> <<>>]
  /\ run_pc = "none"
  /\ run_check = <<>>
  /\ connection = "none"
  /\ run_issues = <<>>
  /\ run_failed = ""
  /\ \E dir \in directories(ResolveFileNames) :
       /\ all_checks = discover_checks(dir).checks
       /\ file_to_class_map = discover_checks(dir).map
  /\ resolve_name \in ResolveNames
  /\ resolved = Unresolved
  /\ pc = "discovered"
  /\ include_names = None
  /\ exclude_names = None
  /\ disabled_config = {}
  /\ checks = <<>>
  /\ idx = 1
  /\ issues = <<>>
  /\ execution_info = NoInfo
  /\ run_log = <<>>
  /\ email_calls = <<>>
  /\ posts = 0
  /\ success = "none"
  /\ error = ""

\* self._resolve_check_name(resolve_name, all_checks, file_to_class_map)
Resolve ==
  /\ ~resolved.called
  /\ LET r == resolve_check_name(resolve_name, all_checks, file_to_class_map)
     IN  resolved' = [called |-> TRUE, found |-> r.found, name |-> r.name]
  /\ UNCHANGED << pipeline_vars, issue_vars, resolve_name, unit_vars >>

(***************************************************************************)
(* discover_checks as a function of the directory listing.                 *)
(***************************************************************************)
DiscoverIdle == listing = <<>>

\* checks, file_to_class_map = self.discover_checks(), for the files of listing
DiscoverListing ==
  /\ pc = "idle"
  /\ LET d == discover_checks(listing)
     IN  /\ all_checks' = d.checks
         /\ file_to_class_map' = d.map
         /\ pc' = IF d.checks = <<>> THEN "executed" ELSE "discovered"
  /\ UNCHANGED << include_names, exclude_names, disabled_config, checks, idx,
                  issues, execution_info, run_log, email_calls, posts,
                  success, error >>
  /\ UNCHANGED << issue_vars, resolve_vars, unit_vars >>

(***************************************************************************)
(* filter_checks as a function of its arguments: all_checks and            *)
(* file_to_class_map are any result of discover_checks, the lists may name *)
(* a check more than once.                                                 *)
(***************************************************************************)
FilterListArgs == { None } \cup { Some(l) : l \in SeqsUpTo(InputNames, MaxNames + 1) }

\* self.filter_checks(all_checks, file_to_class_map, include_names, exclude_names)
FilterChecks ==
  /\ pc = "discovered"
  /\ LET f == filter_checks(all_checks, file_to_class_map, include_names,
                            exclude_names, disabled_config)
     IN  IF f.raised
         THEN /\ pc' = "crashed"
              /\ error' = "ValueError"
              /\ UNCHANGED << checks, execution_info >>
         ELSE /\ checks' = f.filtered
              /\ execution_info' = f.info
              /\ pc' = "filtered"
              /\ error' = error
  /\ UNCHANGED << all_checks, file_to_class_map, include_names, exclude_names,
                  disabled_config, idx, issues, run_log, email_calls, posts,
                  success >>
  /\ UNCHANGED << issue_vars, resolve_vars, unit_vars >>

(***************************************************************************)
(* format_issues and _format_list as functions of their arguments.         *)
(***************************************************************************)
NoHtml == [called |-> FALSE, pieces |-> <<>>]

FormatIdle ==
  /\ fmt_issues = <<>>
  /\ fmt_info = <<>>
  /\ html_body = NoHtml
  /\ list_items = <<>>
  /\ list_max = 0
  /\ list_html = NoHtml

FormatCheckNames == { << "A", "B" >>, << "B", "a" >> }

FormatMessages == { << "m" >>, << "<", "b", ">" >> }

\* extra_data with two scalar lists and a summary
ListExtra ==
  [entity_ids |-> << << "1" >> >>,
   invalid_values |-> << << "B", "&", "2" >>, << "'" >> >>,
   records |-> <<>>,
   summary |-> << [key |-> << "n", ">" >>, value |-> << "2" >>] >>]

\* extra_data with records; the second record lacks a column of the first
TableExtra ==
  [entity_ids |-> <<>>,
   invalid_values |-> <<>>,
   records |-> << << [key |-> << "i", "d" >>, value |-> << "7" >>],
                     [key |-> << "<", "c" >>, value |-> << "\"" >>] >>,
                  << [key |-> << "i", "d" >>, value |-> << "8" >>] >> >>,
   summary |-> <<>>]

\* the details and the extra_data an issue is given
FormatPayloads ==
  { [details |-> <<>>, extra_data |-> NoExtra],
    [details |-> << "&" >>, extra_data |-> ListExtra],
    [details |-> <<>>, extra_data |-> TableExtra] }

FormatIssueSet ==
  { Issue(n, "medium", m, p.details, p.extra_data) :
      n \in FormatCheckNames, m \in FormatMessages, p \in FormatPayloads }

FormatInfos == { <<>>, << "<", "i", ">" >> }

\* html_body = self.format_issues(issues, execution_info)
FormatIssues ==
  /\ ~html_body.called
  /\ html_body' = [called |-> TRUE, pieces |-> format_issues(fmt_issues, fmt_info)]
  /\ UNCHANGED << pipeline_vars, issue_vars, resolve_vars, discover_vars,
                  fmt_issues, fmt_info, list_items, list_max, list_html,
                  ctor_vars, run_vars >>

ListTexts == { << "x" >>, << "<" >> }

\* a list of n items
long_list(n) == [i \in 1..n |-> IF i % 2 = 0 THEN << "x" >> ELSE << "<" >>]

ListInputs ==
  SeqsUpTo(ListTexts, MaxItems)
    \cup { long_list(n) : n \in { MAX_LIST_ITEMS, MAX_LIST_ITEMS + 1,
                                  MAX_LIST_ITEMS + 5 } }

ListMaxima == (0..MaxItems) \cup { MAX_LIST_ITEMS }

\* self._format_list(items, 'Entity IDs', max_items)
FormatList ==
  /\ ~list_html.called
  /\ list_html' = [called |-> TRUE,
                   pieces |-> format_list(list_items, "Entity IDs", list_max)]
  /\ UNCHANGED << pipeline_vars, issue_vars, resolve_vars, discover_vars,
                  fmt_issues, fmt_info, html_body, list_items, list_max,
                  ctor_vars, run_vars >>

(***************************************************************************)
(* Issue() as a function of its arguments.                                 *)
(***************************************************************************)
NoArgs == [check_name |-> <<>>, severity |-> "", message |-> "", details |-> ""]

NotConstructed == [called |-> FALSE, raised |-> FALSE, error |-> "", issue |-> <<>>]

CtorIdle ==
  /\ ctor_args = NoArgs
  /\ constructed = NotConstructed

CtorArgs ==
  [check_name : { <<>>, << "A" >>, << "B" >> },
   severity : { "", "low", "medium", "high", "critical", "HIGH" },
   message : { "", "m1", "m2" },
   details : { "", "d1" }]

\* Issue(check_name, severity, message, details)
Construct ==
  /\ ~constructed.called
  /\ LET r == construct(ctor_args.check_name, ctor_args.severity,
                        ctor_args.message, ctor_args.details, "")
     IN  constructed' = [called |-> TRUE, raised |-> r.raised, error |-> r.error,
                         issue |-> r.issue]
  /\ UNCHANGED << pipeline_vars, issue_vars, resolve_vars, discover_vars,
                  format_vars, ctor_args, run_vars >>

(***************************************************************************)
(* run() of a concrete check (the three checks of checks/ share its        *)
(* shape).  run_pc is "start" after the first two assignments, "connected" *)
(* when the connection is made, "finally" when the try block and its       *)
(* except clause are over, "returned" when run() has returned its          *)
(* collection and "escaped" when an exception has left run().  connection  *)
(* is "none" (None), "open", "lost" (is_connected() answers False) or      *)
(* "closed".  The database decides whether connecting and querying raise,  *)
(* whether the connection is still alive and whether close() raises.       *)
(***************************************************************************)
RunIdle ==
  /\ run_pc = "none"
  /\ run_check = <<>>
  /\ connection = "none"
  /\ run_issues = <<>>
  /\ run_failed = ""

\* the kinds of rows the query may return, each reported by one issue
Categories == << "invalid", "null", "empty" >>

\* the add_issue calls of the try block, for the kinds of rows found
RECURSIVE findings(_, _, _, _)
findings(collection, check_name, found, k) ==
  IF k > Len(Categories) THEN collection
  ELSE findings(IF Categories[k] \in found
                THEN add_issue(collection, check_name, "medium", Categories[k],
                               "rows", "records").issues
                ELSE collection,
                check_name, found, k + 1)

\* the except clause: one issue of severity high carrying str(e)
run_except(collection, check_name, exc) ==
  add_issue(collection, check_name, "high", "Error executing check", exc, "").issues

\* must_close that never closes
must_close_never(conn, alive) == FALSE

\* if connection and connection.is_connected()
must_close(conn, alive) == conn # "none" /\ conn = "open" /\ alive

\* connection = self.get_magento_connection()
RunConnect ==
  /\ run_pc = "start"
  /\ \E ok \in BOOLEAN :
       IF ok
       THEN /\ connection' = "open"
            /\ run_pc' = "connected"
            /\ UNCHANGED << run_issues, run_failed >>
       ELSE /\ run_issues' = run_except(run_issues, run_check, "connect failed")
            /\ run_failed' = "connect"
            /\ run_pc' = "finally"
            /\ UNCHANGED connection
  /\ UNCHANGED << pipeline_vars, issue_vars, resolve_vars, discover_vars,
                  format_vars, ctor_vars, run_check >>

\* results = self.execute_query(...) and the classification of the rows
RunQuery ==
  /\ run_pc = "connected"
  /\ \/ \E found \in SUBSET { Categories[k] : k \in 1..Len(Categories) } :
          /\ run_issues' = findings(run_issues, run_check, found, 1)
          /\ UNCHANGED << connection, run_failed >>
     \/ \E after \in { "open", "lost" } :
          /\ run_issues' = run_except(run_issues, run_check, "query failed")
          /\ run_failed' = "query"
          /\ connection' = after
  /\ run_pc' = "finally"
  /\ UNCHANGED << pipeline_vars, issue_vars, resolve_vars, discover_vars,
                  format_vars, ctor_vars, run_check >>

\* the finally clause and the return statement
RunRelease ==
  /\ run_pc = "finally"
  /\ \E alive \in BOOLEAN, close_ok \in BOOLEAN, after \in { "open", "closed" } :
       IF must_close(connection, alive)
       THEN IF close_ok
            THEN /\ connection' = "closed"
                 /\ run_pc' = "returned"
            ELSE /\ connection' = after
                 /\ run_pc' = "escaped"
       ELSE /\ connection' = IF connection = "open" /\ ~alive
                              THEN "lost" ELSE connection
            /\ run_pc' = "returned"
  /\ UNCHANGED << pipeline_vars, issue_vars, resolve_vars, discover_vars,
                  format_vars, ctor_vars, run_check, run_issues, run_failed >>

UnitIdle == DiscoverIdle /\ FormatIdle /\ CtorIdle /\ RunIdle

vars == << pipeline_vars, issue_vars, resolve_vars, unit_vars >>

Init == PipelineInit /\ IssueIdle /\ ResolveIdle /\ UnitIdle

Next == Discover \/ Filter \/ RunCheck \/ SendReport

Spec == Init /\ [][Next]_vars

\* main is one sequential thread: once a phase has returned the next statement
\* is executed, so a step that is possible is eventually taken
SpecLive == Init /\ [][Next]_vars /\ WF_vars(Next)

IssueInit == PipelineInit /\ IssueIdle /\ ResolveIdle /\ UnitIdle

IssueNext == AddIssue \/ Extend

SpecIssue == IssueInit /\ [][IssueNext]_vars

ResolveNext == Resolve

SpecResolve == ResolveInit /\ [][ResolveNext]_vars

DiscoverInit ==
  /\ PipelineInit /\ IssueIdle /\ ResolveIdle /\ FormatIdle /\ CtorIdle /\ RunIdle
  /\ listing \in directories(ResolveFileNames)

DiscoverNext == DiscoverListing

SpecDiscover == DiscoverInit /\ [][DiscoverNext]_vars

\* manager.run_checks(include_names, exclude_names) as a call: the arguments
\* and the files of the checks directory are there before discovery starts;
\* the configuration disables one name at most
CallInit ==
  /\ IssueIdle /\ ResolveIdle /\ FormatIdle /\ CtorIdle /\ RunIdle
  /\ listing \in directories(FileNames)
  /\ include_names \in ListArgs
  /\ exclude_names \in ListArgs
  /\ disabled_config \in { d \in DisabledConfigs : Cardinality(d) <= 1 }
  /\ pc = "idle"
  /\ all_checks = <<>>
  /\ file_to_class_map = <<>>
  /\ checks = <<>>
  /\ idx = 1
  /\ issues = <<>>
  /\ execution_info = NoInfo
  /\ run_log = <<>>
  /\ email_calls = <<>>
  /\ posts = 0
  /\ success = "none"
  /\ error = ""

CallNext == DiscoverListing \/ FilterChecks \/ RunCheck

SpecCall == CallInit /\ [][CallNext]_vars

FilterInit ==
  /\ IssueIdle /\ ResolveIdle /\ UnitIdle
  /\ \E dir \in directories(FileNames) :
       /\ all_checks = discover_checks(dir).checks
       /\ file_to_class_map = discover_checks(dir).map
  /\ include_names \in FilterListArgs
  /\ exclude_names \in FilterListArgs
  /\ ~both_given(include_names, exclude_names)
  /\ disabled_config \in DisabledConfigs
  /\ pc = "discovered"
  /\ checks = <<>>
  /\ idx = 1
  /\ issues = <<>>
  /\ execution_info = NoInfo
  /\ run_log = <<>>
  /\ email_calls = <<>>
  /\ posts = 0
  /\ success = "none"
  /\ error = ""

FilterNext == FilterChecks

SpecFilter == FilterInit /\ [][FilterNext]_vars

FormatInit ==
  /\ PipelineInit /\ IssueIdle /\ ResolveIdle /\ DiscoverIdle /\ CtorIdle /\ RunIdle
  /\ fmt_issues \in SeqsUpTo(FormatIssueSet, MaxIssues)
  /\ fmt_info \in FormatInfos
  /\ html_body = NoHtml
  /\ list_items = <<>>
  /\ list_max = 0
  /\ list_html = NoHtml

FormatNext == FormatIssues

SpecFormat == FormatInit /\ [][FormatNext]_vars

ListInit ==
  /\ PipelineInit /\ IssueIdle /\ ResolveIdle /\ DiscoverIdle /\ CtorIdle /\ RunIdle
  /\ fmt_issues = <<>>
  /\ fmt_info = <<>>
  /\ html_body = NoHtml
  /\ list_items \in ListInputs
  /\ list_max \in ListMaxima
  /\ list_html = NoHtml

ListNext == FormatList

SpecList == ListInit /\ [][ListNext]_vars

CtorInit ==
  /\ PipelineInit /\ IssueIdle /\ ResolveIdle /\ DiscoverIdle /\ FormatIdle /\ RunIdle
  /\ ctor_args \in CtorArgs
  /\ constructed = NotConstructed

CtorNext == Construct

SpecCtor == CtorInit /\ [][CtorNext]_vars

RunInit ==
  /\ PipelineInit /\ IssueIdle /\ ResolveIdle /\ DiscoverIdle /\ FormatIdle /\ CtorIdle
  /\ run_pc = "start"
  /\ run_check \in ClassNames
  /\ connection = "none"
  /\ run_issues = <<>>
  /\ run_failed = ""

RunNext == RunConnect \/ RunQuery \/ RunRelease

SpecRun == RunInit /\ [][RunNext]_vars

(***************************************************************************)
(* Properties of run_checks and filter_checks.                             *)
(***************************************************************************)
\* run_checks has come back to main (or an exception left main after it)
run_checks_returned == pc \in {"executed", "reported"} \/ error = "EmailReporter"

\* filter_checks has returned a selection
filter_returned == pc = "filtered" \/ (run_checks_returned /\ all_checks # <<>>)

\* the step is a call of check.run() that raised
RunRaised == /\ Len(run_log') = Len(run_log) + 1
             /\ run_log'[Len(run_log')].raised

\* C1: when the run() of a selected check raises, the aggregate gains
\* exactly one issue, of severity high and carrying that check's name, and
\* the loop goes on: once run_checks has returned, run() was called on
\* every selected check, in order.
C1_RaisingCheckYieldsOneIssue ==
  /\ [][RunRaised =>
          /\ Len(issues') = Len(issues) + 1
          /\ SubSeq(issues', 1, Len(issues)) = issues
          /\ issues'[Len(issues')].severity = "high"
          /\ issues'[Len(issues')].check_name = checks[idx].check_name
          /\ run_log'[Len(run_log')].id = checks[idx].id
          /\ idx' = idx + 1
          /\ pc' = IF idx < Len(checks) THEN "filtered" ELSE "executed"]_vars
  /\ [](run_checks_returned =>
          /\ Len(run_log) = Len(checks)
          /\ \A i \in 1..Len(checks) : run_log[i].id = checks[i].id)

\* C1 witness: the first of two selected checks raised and the second ran.
C1_Witness ==
  /\ pc = "executed"
  /\ Len(run_log) = 2
  /\ run_log[1].raised
  /\ ~run_log[2].raised
  /\ Len(issues) = 3
  /\ issues[1].check_name = checks[1].check_name

\* C2 as stated: filter_checks given an include list and an exclude list
\* (any lists, empty ones too) raises and nothing is selected or run.
C2_BothListsRaise ==
  (pc \notin {"idle", "discovered"} /\ all_checks # <<>>
     /\ include_names.given /\ exclude_names.given)
  => (pc = "crashed" /\ error = "ValueError")

\* C2 amended: filter_checks given a non-empty include list and a non-empty
\* exclude list raises ValueError; no selection and no info is returned and
\* no run() is called.
C2_BothNonEmptyRaise ==
  (pc \notin {"idle", "discovered"} /\ all_checks # <<>>
     /\ include_names.given /\ include_names.list # <<>>
     /\ exclude_names.given /\ exclude_names.list # <<>>)
  => /\ pc = "crashed"
     /\ error = "ValueError"
     /\ checks = <<>>
     /\ execution_info = NoInfo
     /\ run_log = <<>>
     /\ issues = <<>>

\* C2 witness: the call was made with two non-empty lists and raised.
C2_Witness ==
  /\ pc = "crashed"
  /\ error = "ValueError"
  /\ include_names.list # <<>>
  /\ exclude_names.list # <<>>
  /\ Len(all_checks) = 2

\* C3: in include, exclude and default mode alike, no selected check
\* carries the logical name a configured disabled name resolves to.
C3_NoDisabledCheckSelected ==
  filter_returned =>
    \A n \in disabled_config :
      LET r == resolve_check_name(n, all_checks, file_to_class_map)
      IN  r.found => \A i \in 1..Len(checks) : checks[i].check_name # r.name

\* C3 witness: include mode, one requested check is disabled and left out
\* while another requested check is selected.
C3_Witness ==
  /\ pc = "filtered"
  /\ truthy(include_names)
  /\ \E n \in disabled_config :
       /\ resolve_check_name(n, all_checks, file_to_class_map).found
       /\ \E i \in 1..Len(all_checks) :
            all_checks[i].check_name =
              resolve_check_name(n, all_checks, file_to_class_map).name
  /\ Len(checks) >= 1
  /\ Len(checks) < Len(all_checks)

\* the include name resolves to a check the configuration disables
RequestedDisabled(name) ==
  LET r == resolve_check_name(name, all_checks, file_to_class_map)
  IN  /\ r.found
      /\ \E n \in disabled_config :
           LET d == resolve_check_name(n, all_checks, file_to_class_map)
           IN  d.found /\ d.name = r.name

Least(S) == CHOOSE i \in S : \A j \in S : i <= j

\* C5: resolution ignores case; the first check in list order whose logical
\* name matches wins; a source identifier is consulted only when no logical
\* name matches, the first matching one in map order wins; the result is
\* None exactly when neither matches.
C5_ResolveFirstMatch ==
  resolved.called =>
    LET low == str_lower(resolve_name)
        by_class == { i \in 1..Len(all_checks) :
                        str_lower(all_checks[i].check_name) = low }
        by_file == { i \in 1..Len(file_to_class_map) :
                       str_lower(file_to_class_map[i].file) = low }
    IN  IF by_class # {}
        THEN resolved.found /\ resolved.name = all_checks[Least(by_class)].check_name
        ELSE IF by_file # {}
        THEN resolved.found /\ resolved.name = file_to_class_map[Least(by_file)].cls
        ELSE ~resolved.found

\* C5 witness: two checks whose logical names differ only by case both
\* match a name typed in lower case, and the first one is returned.
C5_Witness ==
  /\ resolved.called
  /\ resolved.found
  /\ resolve_name = <<"a", "b">>
  /\ Len(all_checks) = 2
  /\ all_checks[1].check_name = <<"A", "B">>
  /\ all_checks[2].check_name = <<"A", "b">>
  /\ resolved.name = <<"A", "B">>

(***************************************************************************)
(* Properties of send_report and of the run as a whole.                    *)
(***************************************************************************)
\* send_report has returned or raised
send_report_ended == pc = "reported" \/ error = "EmailReporter"

\* C6: send_report makes no delivery call when the aggregate is empty; when
\* the aggregate is not empty it hands the aggregate and the execution info
\* to the reporter exactly once.
C6_DeliveryIffIssues ==
  send_report_ended =>
    IF issues = <<>>
    THEN email_calls = <<>> /\ posts = 0
    ELSE email_calls = << [issues |-> issues, execution_info |-> execution_info] >>

\* position of a pc value in the order of the phases; a crash ends the run
Rank(p) ==
  CASE p = "idle" -> 1
    [] p = "discovered" -> 2
    [] p = "filtered" -> 3
    [] p = "executed" -> 4
    [] p = "reported" -> 5
    [] OTHER -> 6

\* C7: the run goes through Idle, Discovered, Filtered, Executed, Reported
\* forwards only; run() is called only once discovery and filtering have
\* finished, and a delivery is attempted only once every selected check has
\* been executed.
C7_PhasesInOrder ==
  /\ [][Rank(pc') >= Rank(pc)]_vars
  /\ [][run_log' # run_log =>
          /\ pc = "filtered"
          /\ all_checks # <<>>
          /\ checks # <<>>
          /\ execution_info # NoInfo]_vars
  /\ [][(email_calls' # email_calls \/ posts' # posts) =>
          /\ pc = "executed"
          /\ Len(run_log) = Len(checks)
          /\ \A i \in 1..Len(checks) : run_log[i].id = checks[i].id]_vars

\* C7 witness: a run that discovered, filtered, executed two checks and
\* then delivered the report.
C7_Witness ==
  /\ pc = "reported"
  /\ Len(checks) = 2
  /\ Len(run_log) = 2
  /\ Len(email_calls) = 1
  /\ posts = 1

\* the issue lists the calls of run() returned, one after the other
RECURSIVE Returned(_)
Returned(log) ==
  IF log = <<>> THEN <<>> ELSE Head(log).result \o Returned(Tail(log))

\* C8: after a run of run_checks in which nothing raised, the aggregate is
\* the issues each run() returned, check after check in selection order,
\* each check's issues in the order it returned them.
C8_AggregateIsConcatenation ==
  (run_checks_returned /\ \A i \in 1..Len(run_log) : ~run_log[i].raised) =>
    /\ Len(run_log) = Len(checks)
    /\ \A i \in 1..Len(checks) : run_log[i].id = checks[i].id
    /\ issues = Returned(run_log)

\* C8 witness: two checks with different names each returned two issues.
C8_Witness ==
  /\ pc = "executed"
  /\ Len(run_log) = 2
  /\ ~run_log[1].raised /\ ~run_log[2].raised
  /\ Len(run_log[1].result) = 2 /\ Len(run_log[2].result) = 2
  /\ run_log[1].check_name # run_log[2].check_name
  /\ Len(issues) = 4

(***************************************************************************)
(* Properties of IssueCollection.                                          *)
(***************************************************************************)
\* C9: after A.extend(B), A holds its previous issues in their previous
\* order followed by the issues of B in B's order.
C9_ExtendConcatenates ==
  last_call.op = "extend" =>
    LET now == colls[last_call.target]
        was == last_call.before
        arg == last_call.arg
    IN  /\ Len(now) = Len(was) + Len(arg)
        /\ \A i \in 1..Len(was) : now[i] = was[i]
        /\ \A j \in 1..Len(arg) : now[Len(was) + j] = arg[j]

\* C9 witness: a collection of two different issues was extended by
\* another collection holding one issue, different from the last one.
C9_Witness ==
  /\ last_call.op = "extend"
  /\ last_call.target # last_call.other
  /\ Len(last_call.before) = 2
  /\ Len(last_call.arg) = 1
  /\ last_call.before[1] # last_call.before[2]
  /\ last_call.arg[1] # last_call.before[2]
  /\ colls[last_call.target] =
       << last_call.before[1], last_call.before[2], last_call.arg[1] >>

RECURSIVE GroupSizes(_)
GroupSizes(grouped) ==
  IF grouped = <<>> THEN 0 ELSE Len(Head(grouped).items) + GroupSizes(Tail(grouped))

\* C10: for every collection built by add_issue and extend, the sizes of
\* the groups of group_by_check add up to the size of the collection.
C10_GroupSizesAddUp ==
  \A c \in CollIds : GroupSizes(group_by_check(colls[c])) = Len(colls[c])

\* C10 witness: a collection of three issues of two checks, the issues of
\* one check not adjacent.
C10_Witness ==
  \E c \in CollIds :
    /\ Len(colls[c]) = 3
    /\ colls[c][1].check_name = colls[c][3].check_name
    /\ colls[c][1].check_name # colls[c][2].check_name
    /\ Len(group_by_check(colls[c])) = 2

(***************************************************************************)
(* Properties of the report and of Issue.                                  *)
(***************************************************************************)
\* the check names of a list of issues, each once, in order of first appearance
RECURSIVE FirstSeen(_, _)
FirstSeen(list, seen) ==
  IF list = <<>> THEN <<>>
  ELSE IF Head(list).check_name \in seen THEN FirstSeen(Tail(list), seen)
  ELSE << Head(list).check_name >>
         \o FirstSeen(Tail(list), seen \cup { Head(list).check_name })

\* the headings and messages a report of the issues must show, in order
RECURSIVE Outline(_, _)
Outline(list, keys) ==
  IF keys = <<>> THEN <<>>
  ELSE LET own == SelectSeq(list, LAMBDA i : i.check_name = Head(keys))
       IN  << [kind |-> "h2", text |-> format_check_name(Head(keys))] >>
           \o [j \in 1..Len(own) |-> [kind |-> "message", text |-> own[j].message]]
           \o Outline(list, Tail(keys))

\* C11: group_by_check has one group per check_name, the keys in the order
\* the names first appear in the collection, each group holding exactly the
\* issues of that name in insertion order (issues of different names never
\* share a group, whatever else they have in common); the report shows the
\* check headings and the issue messages in that same order.
C11_GroupedByCheckInOrder ==
  LET grouped == group_by_check(fmt_issues)
      keys == FirstSeen(fmt_issues, {})
  IN  /\ Len(grouped) = Len(keys)
      /\ \A g \in 1..Len(grouped) :
           /\ grouped[g].key = keys[g]
           /\ grouped[g].items =
                SelectSeq(fmt_issues, LAMBDA i : i.check_name = keys[g])
      /\ html_body.called =>
           LET shown == SelectSeq(html_body.pieces,
                                  LAMBDA p : p.kind \in { "h2", "message" })
           IN  [k \in 1..Len(shown) |-> [kind |-> shown[k].kind, text |-> shown[k].raw]]
                 = Outline(fmt_issues, keys)

\* C11 witness: a report of three issues; the first two differ in nothing
\* but the check name, the third belongs to the first check and has another
\* message.
C11_Witness ==
  /\ html_body.called
  /\ Len(fmt_issues) = 3
  /\ fmt_issues[1].check_name # fmt_issues[2].check_name
  /\ fmt_issues[1].message = fmt_issues[2].message
  /\ fmt_issues[1].extra_data = fmt_issues[2].extra_data
  /\ fmt_issues[1].extra_data # NoExtra
  /\ fmt_issues[3].check_name = fmt_issues[1].check_name
  /\ fmt_issues[3].message # fmt_issues[1].message
  /\ Len(group_by_check(fmt_issues)) = 2

\* C12: Issue() returns an issue exactly when check_name and message are
\* not empty and severity is low, medium or high; otherwise it raises and
\* no issue exists.  An issue that exists carries the arguments it was made
\* from, so its severity is one of the three.
C12_ConstructionValidates ==
  constructed.called =>
    LET ok == /\ ctor_args.check_name # <<>>
              /\ ctor_args.severity # ""
              /\ ctor_args.message # ""
              /\ ctor_args.severity \in { "low", "medium", "high" }
    IN  /\ constructed.raised <=> ~ok
        /\ constructed.raised => (constructed.issue = <<>> /\ constructed.error # "")
        /\ ~constructed.raised =>
             /\ Len(constructed.issue) = 1
             /\ constructed.issue[1].severity \in { "low", "medium", "high" }
             /\ constructed.issue[1].severity = ctor_args.severity
             /\ constructed.issue[1].check_name = ctor_args.check_name
             /\ constructed.issue[1].message = ctor_args.message

\* C12 witness: a severity that is none of the three (a valid one in upper
\* case), with a name and a message, was refused.
C12_Witness ==
  /\ constructed.called
  /\ constructed.raised
  /\ ctor_args.severity = "HIGH"
  /\ ctor_args.check_name # <<>>
  /\ ctor_args.message # ""

(***************************************************************************)
(* Properties of a concrete check's run().                                 *)
(***************************************************************************)
\* the issues of severity high of a collection
HighIssues(collection) == SelectSeq(collection, LAMBDA i : i.severity = "high")

\* C13: no exception leaves run(), whatever connecting, querying and
\* releasing the connection do; when connecting or querying failed, the
\* returned collection holds exactly one issue of severity high, and it
\* carries the check's name.
C13_RunNeverRaises ==
  /\ run_pc # "escaped"
  /\ (run_pc = "returned" /\ run_failed # "") =>
       /\ Len(HighIssues(run_issues)) = 1
       /\ HighIssues(run_issues)[1].check_name = run_check

\* C17: when run() has returned, the connection it made is not open any
\* more: it was closed in the finally clause, or the server had dropped it
\* (is_connected() answers False); this on the success path and after a
\* failed query alike.  No connection at all means connecting failed.
C17_ConnectionReleased ==
  run_pc = "returned" =>
    /\ connection \in { "none", "closed", "lost" }
    /\ connection = "none" => run_failed = "connect"
    /\ run_failed = "" => connection \in { "closed", "lost" }

\* C17 witness: the query failed on a live connection, which was closed
\* before run() returned its collection.
C17_Witness ==
  /\ run_pc = "returned"
  /\ run_failed = "query"
  /\ connection = "closed"
  /\ Len(run_issues) = 1

(***************************************************************************)
(* Properties of the delivery and of the rendering.                        *)
(***************************************************************************)
\* C14: no failure of the delivery leaves send_report as an exception, be
\* it the set-up of the reporter, the token or the send request: the run
\* reaches its end, and a delivery that failed shows as the result False.
C14_DeliveryFailureCaught ==
  /\ error # "EmailReporter"
  /\ (pc = "reported" /\ email_calls # <<>>) =>
       /\ success \in { "true", "false" }
       /\ posts = 0 => success = "false"

\* the places of the report that hold free text
FreeTextKinds ==
  { "execution-info", "h2", "message", "details", "li", "th", "td", "key", "value" }

\* C15: every free text of the report (execution info, check name, message,
\* details, list item, table header, table cell, summary key and value) is
\* written into the markup HTML-escaped.
C15_AllFreeTextEscaped ==
  html_body.called =>
    \A k \in 1..Len(html_body.pieces) :
      html_body.pieces[k].kind \in FreeTextKinds =>
        html_body.pieces[k].text = escape_html(html_body.pieces[k].raw)

\* the pieces of one kind, in document order
PiecesOf(pieces, kind) == SelectSeq(pieces, LAMBDA p : p.kind = kind)

\* C16: _format_list called with n items and the maximum m shows the first
\* min(n, m) items, in order, and nothing else; it adds a truncation notice,
\* reading m of n, exactly when n > m.
C16_ListTruncation ==
  list_html.called =>
    LET n == Len(list_items)
        m == list_max
        shown == PiecesOf(list_html.pieces, "li")
        notices == PiecesOf(list_html.pieces, "notice")
    IN  /\ Len(shown) = IF n < m THEN n ELSE m
        /\ \A i \in 1..Len(shown) :
             /\ shown[i].raw = list_items[i]
             /\ shown[i].text = escape_html(list_items[i])
        /\ Len(list_html.pieces) = 1 + Len(shown) + Len(notices)
        /\ IF n > m
           THEN /\ Len(notices) = 1
                /\ notices[1].shown = m
                /\ notices[1].total = n
           ELSE notices = <<>>

\* C16 witness: 15 items with the maximum 10 gave 10 items and the notice
\* 10 of 15.
C16_Witness ==
  /\ list_html.called
  /\ Len(list_items) = 15
  /\ list_max = 10
  /\ Len(PiecesOf(list_html.pieces, "li")) = 10
  /\ PiecesOf(list_html.pieces, "notice") = << Notice(10, 15) >>

(***************************************************************************)
(* Properties of discover_checks.                                          *)
(***************************************************************************)
\* the file does not load, or the constructor of one of its classes raises
FailsToLoad(f) == ~f.loads \/ f.raise_at # 0

\* discover_checks has returned
discover_returned == pc # "idle"

\* C18: when a file of the directory fails to load or to instantiate,
\* discover_checks still returns, and every variant of every other file,
\* all of whose variants load, is in the instance list and has its file's
\* source identifier mapped to its logical name.
C18_GoodVariantsDiscovered ==
  (discover_returned /\ \E i \in 1..Len(listing) : FailsToLoad(listing[i])) =>
    \A i \in 1..Len(listing) :
      ~FailsToLoad(listing[i]) =>
        \A k \in 1..Len(listing[i].classes) :
          /\ \E j \in 1..Len(all_checks) :
               all_checks[j].check_name = listing[i].classes[k]
          /\ \E e \in 1..Len(file_to_class_map) :
               /\ file_to_class_map[e].file = listing[i].name
               /\ file_to_class_map[e].cls = listing[i].classes[k]

(***************************************************************************)
(* Properties of filter_checks in include and in exclude mode.             *)
(***************************************************************************)
\* the logical names the names of a list resolve to
ResolutionsOf(names) ==
  { resolve_check_name(names[k], all_checks, file_to_class_map).name :
      k \in { j \in 1..Len(names) :
                resolve_check_name(names[j], all_checks, file_to_class_map).found } }

\* the logical names the configured disabled names resolve to
DisabledSet ==
  { resolve_check_name(n, all_checks, file_to_class_map).name :
      n \in { d \in disabled_config :
                resolve_check_name(d, all_checks, file_to_class_map).found } }

\* filter_checks has returned in include mode
include_returned == pc = "filtered" /\ truthy(include_names)

\* filter_checks has returned in exclude mode
exclude_returned == pc = "filtered" /\ ~truthy(include_names) /\ truthy(exclude_names)

\* C19: in include mode the selection is the discovered checks, in
\* discovery order and each once, whose logical name some include name
\* resolves to and which is not disabled; repeating a name, or naming a
\* check by its logical name and by its file, changes nothing.
C19_IncludeSelection ==
  include_returned =>
    /\ checks = SelectSeq(all_checks,
                          LAMBDA c : /\ c.check_name \in ResolutionsOf(include_names.list)
                                     /\ c.check_name \notin DisabledSet)
    /\ \A i \in 1..Len(checks), j \in 1..Len(checks) :
         i < j => checks[i].id < checks[j].id

\* C19 witness: the include list names one check twice, by its logical name
\* and by its file, and that check is selected once, another check not.
C19_Witness ==
  /\ include_returned
  /\ Len(include_names.list) = 2
  /\ include_names.list[1] # include_names.list[2]
  /\ Cardinality(ResolutionsOf(include_names.list)) = 1
  /\ resolve_check_name(include_names.list[1], all_checks, file_to_class_map).found
  /\ resolve_check_name(include_names.list[2], all_checks, file_to_class_map).found
  /\ Len(all_checks) = 2
  /\ Len(checks) = 1

\* the names of a list that resolve, in the order of the list
Resolving(names) ==
  SelectSeq(names,
            LAMBDA n : resolve_check_name(n, all_checks, file_to_class_map).found)

\* C20: in exclude mode the selection is the discovered checks, in
\* discovery order, whose logical name no exclude name resolves to and
\* which is not disabled; the info text lists the formatted name of every
\* excluded check and of every disabled check; exclude names that resolve
\* to nothing add no name to the text and change nothing in the selection.
C20_ExcludeSelection ==
  exclude_returned =>
    LET excluded == ResolutionsOf(exclude_names.list)
        hits == Resolving(exclude_names.list)
    IN  /\ checks = SelectSeq(all_checks,
                              LAMBDA c : /\ c.check_name \notin excluded
                                         /\ c.check_name \notin DisabledSet)
        /\ \A n \in excluded : in_list(format_check_name(n), execution_info.names)
        /\ execution_info.disabled = { format_check_name(n) : n \in DisabledSet }
        /\ Len(execution_info.names) = Len(hits)
        /\ \A k \in 1..Len(hits) :
             execution_info.names[k] =
               format_check_name(
                 resolve_check_name(hits[k], all_checks, file_to_class_map).name)
        /\ LET f == filter_checks(all_checks, file_to_class_map, None,
                                  Some(hits), disabled_config)
           IN  /\ f.filtered = checks
               /\ f.info.names = execution_info.names
               /\ f.info.disabled = execution_info.disabled

\* C20 witness: of two exclude names one resolves to nothing; of two
\* discovered checks one is excluded, the other is disabled, and both names
\* are in the info text.
C20_Witness ==
  /\ exclude_returned
  /\ Len(exclude_names.list) = 2
  /\ Len(Resolving(exclude_names.list)) = 1
  /\ Len(all_checks) = 2
  /\ Cardinality(DisabledSet) = 1
  /\ DisabledSet # ResolutionsOf(exclude_names.list)
  /\ checks = <<>>
  /\ Len(execution_info.names) = 1
  /\ Cardinality(execution_info.disabled) = 1

\* C21: when include mode selects nothing, the selection is empty and the
\* info text starts "No valid checks found from" and lists the include
\* names as given; it says that the requested checks are disabled exactly
\* when some include name resolves to a disabled check, and nothing more
\* otherwise.
C21_EmptyIncludeInfo ==
  (include_returned /\ checks = <<>>) =>
    /\ execution_info.head = "No valid checks found from"
    /\ execution_info.names = include_names.list
    /\ execution_info.skipped = <<>>
    /\ IF \E k \in 1..Len(include_names.list) :
            RequestedDisabled(include_names.list[k])
       THEN execution_info.note = "requested checks are disabled"
       ELSE execution_info.note = ""

\* C21 witness: of two include names one resolves to nothing and the other
\* to a disabled check; nothing is selected and the text says so.
C21_Witness ==
  /\ include_returned
  /\ checks = <<>>
  /\ Len(include_names.list) = 2
  /\ Len(Resolving(include_names.list)) = 1
  /\ \E k \in 1..2 : RequestedDisabled(include_names.list[k])
  /\ all_checks # <<>>
  /\ execution_info.note = "requested checks are disabled"

\* no check has run() called twice, and send_email and the send request are
\* made at most once
NoRetry ==
  /\ \A i, j \in 1..Len(run_log) : run_log[i].id = run_log[j].id => i = j
  /\ Len(email_calls) <= 1
  /\ posts <= 1

\* main has come to its last statement: send_report has returned.  A call of
\* run_checks with both lists is one main never makes (the two flags exclude
\* each other in its argument parser), so that configuration error is set
\* aside.
main_ended == pc = "reported" \/ (pc = "crashed" /\ error = "ValueError")

\* C22: the pipeline always terminates after attempting delivery: with every
\* run() and the delivery call returning or raising, main reaches its end
\* after run_checks and send_report whatever number of checks raise, and no
\* check and no delivery is tried a second time.
C22_MainReachesItsEnd == <>main_ended /\ []NoRetry

\* what does hold: main stops, by its last statement or by an exception, and
\* nothing is retried
C22_MainStops == <>(pc \in {"reported", "crashed"}) /\ []NoRetry

\* the checks run() has been called on so far, in call order
run_ids == [i \in 1..Len(run_log) |-> run_log[i].id]

\* C23: within one run the calls of run() follow the selection: the checks
\* called so far are the first checks of the selection, in selection order,
\* whether or not an earlier one raised; when run_checks has returned that is
\* the whole selection, each check once; a discovered check outside the
\* selection is never called.
C23_EachSelectedCheckRunOnce ==
  /\ Len(run_log) <= Len(checks)
  /\ \A i \in 1..Len(run_log) : run_ids[i] = checks[i].id
  /\ run_checks_returned => Len(run_log) = Len(checks)
  /\ \A k \in 1..Len(all_checks) :
       (\A i \in 1..Len(checks) : checks[i].id # all_checks[k].id) =>
         \A j \in 1..Len(run_log) : run_ids[j] # all_checks[k].id

\* C23 witness: two checks are discovered and only the second is selected;
\* run_checks has returned and run() was called on that check alone.
C23_Witness ==
  /\ run_checks_returned
  /\ Len(all_checks) = 2
  /\ Len(checks) = 1
  /\ checks[1].id = all_checks[2].id
  /\ run_ids = << all_checks[2].id >>

\* run_checks was called with a non-empty include list and a non-empty
\* exclude list
both_lists_passed ==
  /\ include_names.given /\ include_names.list # <<>>
  /\ exclude_names.given /\ exclude_names.list # <<>>

\* C24 as stated: run_checks called with a non-empty include list and a
\* non-empty exclude list ends with the configuration error before any check
\* runs, whatever discovery finds, no check at all included.
C24_BothListsAlwaysEndInError ==
  both_lists_passed =>
    /\ run_log = <<>>
    /\ pc \notin {"idle", "discovered"} => (pc = "crashed" /\ error = "ValueError")

\* C24 amended: run_checks called with a non-empty include list and a
\* non-empty exclude list runs no check; when discovery finds at least one
\* check it ends with the configuration error, and when discovery finds none
\* it returns before the lists are looked at, without an error.
C24_BothListsEndInErrorIfDiscovered ==
  both_lists_passed =>
    /\ run_log = <<>>
    /\ checks = <<>>
    /\ pc \notin {"idle", "discovered"} =>
         IF all_checks = <<>>
         THEN pc = "executed" /\ error = ""
         ELSE pc = "crashed" /\ error = "ValueError"

\* C24 witness: the directory holds a check file, both lists were passed and
\* the call ended with the configuration error, no check run.
C24_Witness ==
  /\ both_lists_passed
  /\ listing # <<>>
  /\ Len(all_checks) = 1
  /\ pc = "crashed"
  /\ error = "ValueError"
  /\ run_log = <<>>

\* the case the statement of C24 gets wrong: both lists passed, nothing
\* discovered, run_checks has returned without an error
C24_NothingDiscovered ==
  /\ both_lists_passed
  /\ all_checks = <<>>
  /\ pc = "executed"
  /\ error = ""

\* the Issue invariant: a check name, a message, a severity of the three
IssueInvariant(issue) ==
  /\ issue.check_name # <<>>
  /\ issue.message # ""
  /\ issue.severity \in {"low", "medium", "high"}

\* every held issue satisfies the Issue invariant; an add_issue that raised
\* left the issue sequence as it was, and one that did not raise appended
\* one issue
AddIssueKeepsInvariant ==
  /\ \A c \in CollIds : \A i \in 1..Len(colls[c]) : IssueInvariant(colls[c][i])
  /\ last_call.op = "add_issue" =>
       LET now == colls[last_call.target]
       IN  IF last_call.raised
           THEN now = last_call.before
           ELSE /\ Len(now) = Len(last_call.before) + 1
                /\ SubSeq(now, 1, Len(last_call.before)) = last_call.before

\* C25 as stated: after any sequence of add_issue and extend every held
\* issue satisfies the Issue invariant, an add_issue with invalid arguments
\* raises and leaves the issue sequence unchanged, and extend leaves the
\* collection passed as its argument unchanged.
C25_ExtendLeavesArgument ==
  /\ AddIssueKeepsInvariant
  /\ last_call.op = "extend" => colls[last_call.other] = last_call.arg

\* C25 amended: the same, extend leaving its argument unchanged when the
\* argument is another collection; a collection extended by itself holds its
\* issues twice.
C25_ExtendLeavesOtherCollection ==
  /\ AddIssueKeepsInvariant
  /\ last_call.op = "extend" =>
       IF last_call.target # last_call.other
       THEN colls[last_call.other] = last_call.arg
       ELSE colls[last_call.other] = last_call.arg \o last_call.arg

\* C25 witness: add_issue raised on a collection of two issues, which is as
\* it was, while the other collection holds an issue too.
C25_Witness ==
  /\ last_call.op = "add_issue"
  /\ last_call.raised
  /\ Len(last_call.before) = 2
  /\ colls[last_call.target] = last_call.before
  /\ \E c \in CollIds : c # last_call.target /\ colls[c] # <<>>

\* the case the statement of C25 gets wrong: a collection holding an issue
\* was extended by itself
C25_SelfExtend ==
  /\ last_call.op = "extend"
  /\ last_call.target = last_call.other
  /\ last_call.arg # <<>>
  /\ colls[last_call.other] # last_call.arg

====
